---------------------------- MODULE Spec2Model ----------------------------
(***************************************************************************)
(* LawChatBot: the dialogue service (src/dialogue_service.py) with the     *)
(* auth service's users table (src/auth_service.py) as its authorization   *)
(* oracle.  Every request handler is a coroutine; one action of the model  *)
(* is the code that runs between two awaits that touch shared state (a     *)
(* database statement, a call to another service).                         *)
(*                                                                         *)
(* Texts are sequences of one-character strings.  A database timestamp is  *)
(* the value of the clock `now`, which every writing statement advances;   *)
(* 0 stands for SQL NULL in a timestamp column.  A uuid4 message id is the *)
(* index of the request that generated it (each request generates at most  *)
(* one), and so is the random IV of the one encryption a request makes.    *)
(* No two rows share a sent_at: the clock advances with every INSERT.      *)
(* A behaviour is one lifetime of the dialogue service process, so there   *)
(* is one ENCRYPTION_KEY throughout; SpecFault starts from a store an      *)
(* earlier lifetime wrote to under another key.  The tables are those      *)
(* init_db of the dialogue service creates.                                *)
(***************************************************************************)
EXTENDS Integers, Sequences, FiniteSets, TLC

VARIABLES
    users,        \* auth service, table users: user_id -> "none" | "reg" | "auth"
    dialogs,      \* dialogue service, table dialogs: a set of rows
    user_states,  \* dialogue service, table user_states: a set of rows
    reqs,         \* every request received so far, with its position and locals
    now           \* the database clock behind NOW()

vars == <<users, dialogs, user_states, reqs, now>>

----------------------------------------------------------------------------
(* Bounds of the model *)

MaxReqs == 2        \* requests received in a behaviour of Spec
MaxCtxTurns == 15   \* turns logged for the user/chat pair in SpecCtx
MaxForeign == 1     \* turns logged for another user or chat in SpecCtx
MaxCtxProcess == 1  \* /process requests in SpecCtx
MaxStateReqs == 2   \* requests received in a behaviour of SpecState

(* Program constants *)

MAX_TRUNCATED_LENGTH == 100
CONTEXT_LIMIT == 10
HISTORY_DEFAULT_LIMIT == 20
FallbackLen == 59

Users == {1, 2}
ENCRYPTION_KEY == "key"

Min(a, b) == IF a <= b THEN a ELSE b

----------------------------------------------------------------------------
(* Values *)

\* Optional values: a JSON null (or an absent key) against a value.
None == [some |-> FALSE, v |-> <<>>]
Some(x) == [some |-> TRUE, v |-> x]

\* A generated answer of n characters; the seed makes answers of different
\* turns differ from the first character on.
Ans(n, seed) == [i \in 1..n |-> <<"a", "b", "c">>[((i + seed) % 3) + 1]]

Hello == <<"H", "e", "l", "l", "o">>
Texts == {<<>>, Hello}

\* The apology get_ml_response returns when the ML service call failed.
Fallback == [i \in 1..FallbackLen |-> "x"]

\* What the ML service may generate: any text, the apology's words included.
Answers ==
    {Ans(0, 0), Ans(3, 0), Ans(MAX_TRUNCATED_LENGTH, 1), Ans(120, 2), Fallback}

\* "[Ошибка расшифровки]", the text get_dialog_history puts in place of a
\* field it could not decrypt.
DecryptErrorText == <<"[", "!", "]">>

----------------------------------------------------------------------------
(* Crypto-at-rest.  A TEXT column holds SQL NULL, a plain string, or the    *)
(* JSON bundle {iv, ciphertext} that encrypt_data returns; the ciphertext   *)
(* is symbolic: it is determined by key, iv and plaintext, and yields the   *)
(* plaintext only under the key that made it.  The functions themselves,    *)
(* on bytes, are EncryptWith and DecryptWith further down.                  *)

NullCell == [kind |-> "null", iv |-> 0, key |-> "", pt |-> <<>>]
PlainCell(x) == [kind |-> "plain", iv |-> 0, key |-> "", pt |-> x]

encrypt_data(data, iv) ==
    [kind |-> "enc", iv |-> iv, key |-> ENCRYPTION_KEY, pt |-> data]

\* decrypt_data raises unless its argument parses as a bundle made under
\* the process key.
CanDecrypt(cell) == cell.kind = "enc" /\ cell.key = ENCRYPTION_KEY
decrypt_data(cell) == cell.pt

\* Python truthiness of a fetched TEXT value: None and "" are falsy.
Truthy(cell) ==
    \/ cell.kind = "enc"
    \/ cell.kind = "plain" /\ cell.pt # <<>>

----------------------------------------------------------------------------
(* Requests *)

\* The data argument of /update_state: None, or a dict as its set of items.
DataNone == [kind |-> "none", items |-> {}]
DataDict(items) == [kind |-> "dict", items |-> items]
Datas == {DataNone, DataDict({}), DataDict({<<"step", 1>>})}
States == {"s1", "s2"}

\* A current_state in a reply: null, or the tag.
NoState == [some |-> FALSE, v |-> ""]
SomeState(x) == [some |-> TRUE, v |-> x]

\* json.dumps({'iv': ..., 'ciphertext': ...}) before anything was encrypted.
NoBundle == [iv |-> <<>>, ciphertext |-> <<>>]

NoResult ==
    [status |-> "none", full_answer |-> None, truncated_answer |-> None,
     message_id |-> 0, history |-> <<>>, state |-> NoState, data |-> DataNone]

NewReq(kind, user_id) ==
    [kind |-> kind, pc |-> "done", user_id |-> user_id, chat_id |-> 0,
     text |-> <<>>, is_bot |-> FALSE, message_id |-> 0, limit |-> 0,
     context |-> <<>>, ctx_ids |-> <<>>, at |-> 0,
     answer |-> <<>>, ml_failed |-> FALSE,
     oracle |-> "none", authorized |-> FALSE,
     plain |-> <<>>, stmts |-> 0, decrypts |-> 0,
     state |-> "", data |-> DataNone, done_at |-> 0,
     bundle |-> NoBundle, exists |-> FALSE, turn |-> 0, res |-> NoResult]

Req(i) == reqs[i]
NextId == Len(reqs) + 1

----------------------------------------------------------------------------
(* Tables *)

DialogRow(message_id, user_id, chat_id, message_text, is_bot, full_answer) ==
    [message_id |-> message_id, user_id |-> user_id, chat_id |-> chat_id,
     message_text |-> message_text, is_bot_message |-> is_bot,
     sent_at |-> now, read_at |-> 0, full_answer |-> full_answer]

Init ==
    /\ users = [u \in Users |-> "none"]
    /\ dialogs = {}
    /\ user_states = {}
    /\ reqs = <<>>
    /\ now = 1

----------------------------------------------------------------------------
(* Auth service *)

\* POST /register: inserts the users row, or updates its profile columns.
register_user(u) ==
    /\ users' = [users EXCEPT ![u] = IF @ = "none" THEN "reg" ELSE @]
    /\ UNCHANGED <<dialogs, user_states, reqs, now>>

\* POST /authorize: UPDATE users SET phone_number = ... WHERE user_id = u.
authorize_user(u) ==
    /\ users' = [users EXCEPT ![u] = IF @ = "none" THEN "none" ELSE "auth"]
    /\ UNCHANGED <<dialogs, user_states, reqs, now>>

\* An administrator clears the phone number through the database service.
execute_query_revoke(u) ==
    /\ users[u] = "auth"
    /\ users' = [users EXCEPT ![u] = "reg"]
    /\ UNCHANGED <<dialogs, user_states, reqs, now>>

\* POST /check: authorized iff the row's phone_number is not NULL.
AuthServiceCheck(u) == users[u] = "auth"

\* call_service(AUTH_SERVICE_URL/check): the reply of the auth service, or
\* {"error": ...} when the call failed or the status was not 200.
CheckReply(u, fails) ==
    IF fails THEN [error |-> TRUE, authorized |-> FALSE]
    ELSE [error |-> FALSE, authorized |-> AuthServiceCheck(u)]

\* What the auth service answered, kept with the request for the record.
Verdict(reply) ==
    IF reply.error THEN "fail" ELSE IF reply.authorized THEN "true" ELSE "false"

----------------------------------------------------------------------------
(* Dialogue service: helpers *)

\* Mutant: a grant remembered from an earlier request of the user is reused.
check_authorization_cached(user_id, reply) ==
    \/ \E k \in DOMAIN reqs : reqs[k].user_id = user_id /\ reqs[k].authorized
    \/ ~reply.error /\ reply.authorized

\* check_authorization: result.get("authorized", False).
\* Mutant: a failed call counts as a grant.
check_authorization_fail_open(user_id, reply) ==
    IF reply.error THEN TRUE ELSE reply.authorized

check_authorization(user_id, reply) ==
    IF reply.error THEN FALSE ELSE reply.authorized

\* call_service(ML_SERVICE_URL/generate): {"response": a} or {"error": ...}.
MlReplies ==
    {[error |-> FALSE, response |-> a] : a \in Answers}
        \cup {[error |-> TRUE, response |-> <<>>]}

\* Mutant: the test for "error" in the reply is missing.
get_ml_response_unchecked(result) == result.response

\* get_ml_response: the apology on an error reply, else result["response"].
get_ml_response(result) ==
    IF result.error THEN Fallback ELSE result.response

\* ORDER BY sent_at DESC over a set of rows.
RECURSIVE OrderBySentAtDesc(_)
OrderBySentAtDesc(rows) ==
    IF rows = {} THEN <<>>
    ELSE LET r == CHOOSE x \in rows : \A y \in rows : y.sent_at <= x.sent_at
         IN  <<r>> \o OrderBySentAtDesc(rows \ {r})

\* LIMIT n
Limit(seq, n) == SubSeq(seq, 1, Min(n, Len(seq)))

\* reversed(seq)
Reversed(seq) == [j \in 1..Len(seq) |-> seq[Len(seq) - j + 1]]

\* Mutant: ORDER BY sent_at without DESC, so the limit keeps the oldest rows.
RECURSIVE OrderBySentAtAsc(_)
OrderBySentAtAsc(rows) ==
    IF rows = {} THEN <<>>
    ELSE LET r == CHOOSE x \in rows : \A y \in rows : x.sent_at <= y.sent_at
         IN  <<r>> \o OrderBySentAtAsc(rows \ {r})

ContextRows_ascending(user_id, chat_id) ==
    Limit(OrderBySentAtAsc({d \in dialogs :
                               d.user_id = user_id /\ d.chat_id = chat_id}),
          CONTEXT_LIMIT)

\* SELECT ... FROM dialogs WHERE user_id = $1 AND chat_id = $2
\* ORDER BY sent_at DESC LIMIT 10
ContextRows(user_id, chat_id) ==
    Limit(OrderBySentAtDesc({d \in dialogs :
                                d.user_id = user_id /\ d.chat_id = chat_id}),
          CONTEXT_LIMIT)

\* One context entry per fetched row, oldest first, then the new message.
\* The content of a row's entry is the message_text column as fetched.
BuildContext(context_rows, message_text) ==
    LET rev == Reversed(context_rows)
    IN  [j \in 1..Len(rev) |->
            [role |-> IF rev[j].is_bot_message THEN "assistant" ELSE "user",
             content |-> rev[j].message_text]]
        \o <<[role |-> "user", content |-> PlainCell(message_text)]>>

\* "..."
Marker == <<".", ".", ".">>

\* Mutant: the slice is one character too long.
Truncate_slice_off_by_one(full_answer) ==
    LET head == SubSeq(full_answer, 1,
                       Min(MAX_TRUNCATED_LENGTH + 1, Len(full_answer)))
    IN  IF Len(full_answer) > MAX_TRUNCATED_LENGTH THEN head \o Marker ELSE head

\* Mutant: `>=` for `>` in the test that appends the marker.
Truncate_marker_at_limit(full_answer) ==
    LET head == SubSeq(full_answer, 1, Min(MAX_TRUNCATED_LENGTH, Len(full_answer)))
    IN  IF Len(full_answer) >= MAX_TRUNCATED_LENGTH THEN head \o Marker ELSE head

\* full_answer[:MAX_TRUNCATED_LENGTH], plus "..." when the answer is longer.
Truncate(full_answer) ==
    LET head == SubSeq(full_answer, 1, Min(MAX_TRUNCATED_LENGTH, Len(full_answer)))
    IN  IF Len(full_answer) > MAX_TRUNCATED_LENGTH THEN head \o Marker ELSE head

\* Mutant: the branches of `if authorized` are swapped.
Disclose_swapped(authorized, full_answer, message_id) ==
    IF ~authorized
    THEN [NoResult EXCEPT !.status = "ok", !.full_answer = Some(full_answer),
                          !.message_id = message_id]
    ELSE [NoResult EXCEPT !.status = "ok",
                          !.truncated_answer = Some(Truncate(full_answer)),
                          !.message_id = message_id]

\* The reply of /process: the full answer, or its truncation.
Disclose(authorized, full_answer, message_id) ==
    IF authorized
    THEN [NoResult EXCEPT !.status = "ok", !.full_answer = Some(full_answer),
                          !.message_id = message_id]
    ELSE [NoResult EXCEPT !.status = "ok",
                          !.truncated_answer = Some(Truncate(full_answer)),
                          !.message_id = message_id]

\* Mutant: the refusal is missing.
FullAnswerDenied_never(authorized) == FALSE

\* /full_answer: `if not authorized: return {"error": "Not authorized"}`.
FullAnswerDenied(authorized) == ~authorized

\* Mutant: the query is scoped by message_id alone.
SelectFullAnswer_any_owner(message_id, user_id) ==
    LET hit == {d \in dialogs : d.message_id = message_id}
    IN  IF hit = {} THEN NullCell ELSE (CHOOSE d \in hit : TRUE).full_answer

\* SELECT full_answer FROM dialogs WHERE message_id = $1 AND user_id = $2,
\* through fetchval: the column of the first row, None when there is no row.
SelectFullAnswer(message_id, user_id) ==
    LET hit == {d \in dialogs : d.message_id = message_id /\ d.user_id = user_id}
    IN  IF hit = {} THEN NullCell ELSE (CHOOSE d \in hit : TRUE).full_answer

\* Mutant: only a first read is stamped (WHERE ... AND read_at IS NULL).
StampRead_first_only(message_id) ==
    {IF d.message_id = message_id /\ d.read_at = 0
     THEN [d EXCEPT !.read_at = now] ELSE d : d \in dialogs}

\* UPDATE dialogs SET read_at = NOW() WHERE message_id = $1
StampRead(message_id) ==
    {IF d.message_id = message_id THEN [d EXCEPT !.read_at = now] ELSE d :
        d \in dialogs}

\* SELECT ... FROM dialogs WHERE user_id = $1 ORDER BY sent_at DESC LIMIT $2
HistoryRows(user_id, limit) ==
    Limit(OrderBySentAtDesc({d \in dialogs : d.user_id = user_id}), limit)

\* Mutant: the full answer is included whenever the row has one.
IncludesFullAnswer_unchecked(authorized, row) == Truthy(row.full_answer)

\* /history: `if authorized and row["full_answer"] and row["is_bot_message"]`.
IncludesFullAnswer(authorized, row) ==
    authorized /\ Truthy(row.full_answer) /\ row.is_bot_message

\* A field of a history item: the plaintext, or the error text when
\* decrypt_data raised.
Decrypted(cell) ==
    IF CanDecrypt(cell) THEN Some(decrypt_data(cell)) ELSE Some(DecryptErrorText)

HistoryItem(authorized, row) ==
    [message_id |-> row.message_id,
     is_bot_message |-> row.is_bot_message,
     sent_at |-> row.sent_at,
     message_text |-> IF Truthy(row.message_text)
                      THEN Decrypted(row.message_text) ELSE None,
     full_answer |-> IF IncludesFullAnswer(authorized, row)
                     THEN Decrypted(row.full_answer) ELSE None]

Finish(r, res) == [r EXCEPT !.pc = "done", !.res = res]

----------------------------------------------------------------------------
(* Dialogue service: POST /process *)

\* Lines 184-207: the message id, the context query and the context.
\* A /process call after its context query, under the given message_id.
ProcessRequest(message_id, user_id, chat_id, message_text) ==
    LET rows == ContextRows(user_id, chat_id)
    IN  [NewReq("process", user_id) EXCEPT
           !.pc = "ml", !.chat_id = chat_id, !.text = message_text,
           !.message_id = message_id, !.at = now, !.stmts = 1,
           !.context = BuildContext(rows, message_text),
           !.ctx_ids = [j \in 1..Len(rows) |->
                            Reversed(rows)[j].message_id]]

process_message_start(user_id, chat_id, message_text) ==
    /\ reqs' = Append(reqs, ProcessRequest(NextId, user_id, chat_id,
                                           message_text))
    /\ UNCHANGED <<users, dialogs, user_states, now>>

\* Line 210: the ML service replies, or the call fails.
process_message_ml(i, result) ==
    /\ Req(i).kind = "process" /\ Req(i).pc = "ml"
    /\ reqs' = [reqs EXCEPT ![i] = [@ EXCEPT !.pc = "auth",
                                       !.answer = get_ml_response(result),
                                       !.ml_failed = result.error]]
    /\ UNCHANGED <<users, dialogs, user_states, now>>

\* Line 213: the auth service is asked.
process_message_check(i, fails) ==
    /\ Req(i).kind = "process" /\ Req(i).pc = "auth"
    /\ LET reply == CheckReply(Req(i).user_id, fails)
       IN  reqs' = [reqs EXCEPT ![i] = [@ EXCEPT
                      !.pc = "insert", !.oracle = Verdict(reply),
                      !.authorized = check_authorization(Req(i).user_id, reply)]]
    /\ UNCHANGED <<users, dialogs, user_states, now>>

\* Mutant: what is stored is what was disclosed.
ProcessRow_disclosed(r) ==
    DialogRow(r.message_id, r.user_id, r.chat_id, PlainCell(r.text), FALSE,
              encrypt_data(IF r.authorized THEN r.answer ELSE Truncate(r.answer),
                           r.message_id))

\* The row of INSERT INTO dialogs (message_id, user_id, chat_id,
\* message_text, full_answer): the text as received, the answer encrypted,
\* is_bot_message at its default.
ProcessRow(r) ==
    DialogRow(r.message_id, r.user_id, r.chat_id, PlainCell(r.text), FALSE,
              encrypt_data(r.answer, r.message_id))

\* Lines 216-241: encrypt, insert, reply.
process_message_insert(i) ==
    /\ Req(i).kind = "process" /\ Req(i).pc = "insert"
    /\ dialogs' = dialogs \cup {ProcessRow(Req(i))}
    /\ now' = now + 1
    /\ reqs' = [reqs EXCEPT ![i] =
                  Finish([@ EXCEPT !.stmts = @ + 1],
                         Disclose(Req(i).authorized, Req(i).answer,
                                  Req(i).message_id))]
    /\ UNCHANGED <<users, user_states>>

\* Mutant: the row is written by two statements, an INSERT of the message
\* and an UPDATE of full_answer, and the second one fails.
process_message_insert_fails_partial(i) ==
    /\ Req(i).kind = "process" /\ Req(i).pc = "insert"
    /\ dialogs' = dialogs \cup
          {[ProcessRow(Req(i)) EXCEPT !.full_answer = NullCell]}
    /\ now' = now + 1
    /\ reqs' = [reqs EXCEPT ![i] =
                  Finish([@ EXCEPT !.stmts = @ + 2],
                         [NoResult EXCEPT !.status = "error500"])]
    /\ UNCHANGED <<users, user_states>>

\* Lines 219-222 when the storage refuses the INSERT: conn.execute raises,
\* the finally clause closes the connection and the exception leaves the
\* handler, so the reply is a 500 without a body of the handler's.
process_message_insert_fails(i) ==
    /\ Req(i).kind = "process" /\ Req(i).pc = "insert"
    /\ reqs' = [reqs EXCEPT ![i] =
                  Finish([@ EXCEPT !.stmts = @ + 1],
                         [NoResult EXCEPT !.status = "error500"])]
    /\ UNCHANGED <<users, dialogs, user_states, now>>

----------------------------------------------------------------------------
(* Dialogue service: POST /log_message *)

\* The row of INSERT INTO dialogs (message_id, user_id, chat_id,
\* message_text, is_bot_message): the text encrypted unless it is empty.
LogRow(message_id, user_id, chat_id, message_text, is_bot_message) ==
    DialogRow(message_id, user_id, chat_id,
              IF message_text # <<>> THEN encrypt_data(message_text, message_id)
              ELSE NullCell,
              is_bot_message, NullCell)

\* A /log_message call that was served, under the given message_id.
LogRequest(message_id, user_id, chat_id, message_text, is_bot_message) ==
    [NewReq("log", user_id) EXCEPT
       !.chat_id = chat_id, !.text = message_text,
       !.is_bot = is_bot_message, !.message_id = message_id,
       !.at = now, !.stmts = 1,
       !.res = [NoResult EXCEPT !.status = "logged",
                                !.message_id = message_id]]

log_message(user_id, chat_id, message_text, is_bot_message) ==
    LET r == LogRequest(NextId, user_id, chat_id, message_text,
                        is_bot_message)
    IN  /\ reqs' = Append(reqs, r)
        /\ dialogs' = dialogs \cup
              {LogRow(NextId, user_id, chat_id, message_text, is_bot_message)}
        /\ now' = now + 1
        /\ UNCHANGED <<users, user_states>>

----------------------------------------------------------------------------
(* Dialogue service: POST /full_answer *)

\* Lines 274-276: the check, and the refusal.
get_full_answer_start(user_id, message_id, fails) ==
    LET reply == CheckReply(user_id, fails)
        authorized == check_authorization(user_id, reply)
        r == [NewReq("full", user_id) EXCEPT
                !.message_id = message_id, !.at = now,
                !.oracle = Verdict(reply), !.authorized = authorized]
    IN  /\ reqs' = Append(reqs,
              IF FullAnswerDenied(authorized)
              THEN Finish(r, [NoResult EXCEPT !.status = "not_authorized"])
              ELSE [r EXCEPT !.pc = "fetch"])
        /\ UNCHANGED <<users, dialogs, user_states, now>>

\* Mutant: the read_at UPDATE comes before the decryption, so it is also
\* executed for an answer that cannot be decrypted.
get_full_answer_fetch_stamps_first(i) ==
    /\ Req(i).kind = "full" /\ Req(i).pc = "fetch"
    /\ LET encrypted_answer == SelectFullAnswer(Req(i).message_id, Req(i).user_id)
           r == [Req(i) EXCEPT !.stmts = @ + 1]
       IN  IF ~Truthy(encrypted_answer)
           THEN /\ reqs' = [reqs EXCEPT ![i] =
                              Finish(r, [NoResult EXCEPT !.status = "not_found"])]
                /\ UNCHANGED <<dialogs, now>>
           ELSE IF ~CanDecrypt(encrypted_answer)
           THEN /\ reqs' = [reqs EXCEPT ![i] =
                              Finish([r EXCEPT !.decrypts = @ + 1, !.stmts = @ + 1],
                                     [NoResult EXCEPT !.status = "error500"])]
                /\ dialogs' = StampRead(Req(i).message_id)
                /\ now' = now + 1
           ELSE /\ reqs' = [reqs EXCEPT ![i] =
                              [r EXCEPT !.pc = "stamp", !.decrypts = @ + 1,
                                        !.plain = decrypt_data(encrypted_answer)]]
                /\ UNCHANGED <<dialogs, now>>
    /\ UNCHANGED <<users, user_states>>

\* Lines 278-291: the query, the "not found" reply, the decryption.  An
\* exception of decrypt_data leaves the handler: the reply is a 500.
get_full_answer_fetch(i) ==
    /\ Req(i).kind = "full" /\ Req(i).pc = "fetch"
    /\ LET encrypted_answer == SelectFullAnswer(Req(i).message_id, Req(i).user_id)
           r == [Req(i) EXCEPT !.stmts = @ + 1]
       IN  reqs' = [reqs EXCEPT ![i] =
              IF ~Truthy(encrypted_answer)
              THEN Finish(r, [NoResult EXCEPT !.status = "not_found"])
              ELSE IF ~CanDecrypt(encrypted_answer)
              THEN Finish([r EXCEPT !.decrypts = @ + 1],
                          [NoResult EXCEPT !.status = "error500"])
              ELSE [r EXCEPT !.pc = "stamp", !.decrypts = @ + 1,
                             !.plain = decrypt_data(encrypted_answer)]]
    /\ UNCHANGED <<users, dialogs, user_states, now>>

\* Lines 294-300: the read_at stamp, and the reply.
get_full_answer_stamp(i) ==
    /\ Req(i).kind = "full" /\ Req(i).pc = "stamp"
    /\ dialogs' = StampRead(Req(i).message_id)
    /\ now' = now + 1
    /\ reqs' = [reqs EXCEPT ![i] =
                  Finish([@ EXCEPT !.stmts = @ + 1, !.done_at = now],
                         [NoResult EXCEPT !.status = "ok",
                                          !.full_answer = Some(Req(i).plain)])]
    /\ UNCHANGED <<users, user_states>>

----------------------------------------------------------------------------
(* Dialogue service: GET /history/{user_id} *)

\* Line 310: the check.
get_dialog_history_start(user_id, limit, fails) ==
    LET reply == CheckReply(user_id, fails)
        r == [NewReq("history", user_id) EXCEPT
                !.pc = "fetch", !.limit = limit, !.at = now,
                !.oracle = Verdict(reply),
                !.authorized = check_authorization(user_id, reply)]
    IN  /\ reqs' = Append(reqs, r)
        /\ UNCHANGED <<users, dialogs, user_states, now>>

\* Lines 313-348: the query and the items.
get_dialog_history_fetch(i) ==
    /\ Req(i).kind = "history" /\ Req(i).pc = "fetch"
    /\ LET rows == HistoryRows(Req(i).user_id, Req(i).limit)
       IN  reqs' = [reqs EXCEPT ![i] =
              Finish([@ EXCEPT !.stmts = @ + 1],
                     [NoResult EXCEPT
                        !.status = "ok",
                        !.history = [j \in 1..Len(rows) |->
                                        HistoryItem(Req(i).authorized, rows[j])]])]
    /\ UNCHANGED <<users, dialogs, user_states, now>>

----------------------------------------------------------------------------
(* The dialogue service under its authorization oracle *)

Next ==
    \/ \E u \in Users : register_user(u)
    \/ \E u \in Users : authorize_user(u)
    \/ \E u \in Users : execute_query_revoke(u)
    \/ \E u \in Users :
          Len(reqs) < MaxReqs /\ process_message_start(u, 1, Hello)
    \/ \E i \in DOMAIN reqs, result \in MlReplies : process_message_ml(i, result)
    \/ \E i \in DOMAIN reqs, fails \in BOOLEAN : process_message_check(i, fails)
    \/ \E i \in DOMAIN reqs : process_message_insert(i)
    \/ \E u \in Users, t \in Texts, b \in BOOLEAN :
          Len(reqs) < MaxReqs /\ log_message(u, 1, t, b)
    \/ \E u \in Users, m \in DOMAIN reqs, fails \in BOOLEAN :
          Len(reqs) < MaxReqs /\ get_full_answer_start(u, m, fails)
    \/ \E i \in DOMAIN reqs : get_full_answer_fetch(i)
    \/ \E i \in DOMAIN reqs : get_full_answer_stamp(i)
    \/ \E u \in Users, limit \in {1, HISTORY_DEFAULT_LIMIT}, fails \in BOOLEAN :
          Len(reqs) < MaxReqs /\ get_dialog_history_start(u, limit, fails)
    \/ \E i \in DOMAIN reqs : get_dialog_history_fetch(i)

Spec == Init /\ [][Next]_vars

\* Every await of a /process handler returns: the HTTP calls answer, fail or
\* reach the client's timeout, the INSERT is executed, and the event loop
\* resumes the coroutine.
ProcessFairness ==
    \A i \in 1..MaxReqs :
        /\ WF_vars(\E result \in MlReplies :
                      i \in DOMAIN reqs /\ process_message_ml(i, result))
        /\ WF_vars(\E fails \in BOOLEAN :
                      i \in DOMAIN reqs /\ process_message_check(i, fails))
        /\ WF_vars(i \in DOMAIN reqs /\ process_message_insert(i))

SpecLive == Init /\ [][Next]_vars /\ ProcessFairness

----------------------------------------------------------------------------
(* Dialogue service: the state ledger, POST /update_state, GET /state *)

\* The JSONB column state_data: SQL NULL, or the text json.dumps made.
JsonNull == [kind |-> "null", items |-> {}]
json_dumps(data) == [kind |-> "json", items |-> data.items]
json_loads(cell) == DataDict(cell.items)

\* The third parameter of the statement: json.dumps(data) if data else None.
StateDataParam(data) ==
    IF data.kind = "dict" /\ data.items # {} THEN json_dumps(data) ELSE JsonNull

\* Mutant: ON CONFLICT updates current_state and updated_at, not state_data.
Upsert_state_only(user_id, state, state_data) ==
    IF \E r \in user_states : r.user_id = user_id
    THEN {IF r.user_id = user_id
          THEN [r EXCEPT !.current_state = state, !.updated_at = now]
          ELSE r : r \in user_states}
    ELSE user_states \cup
            {[user_id |-> user_id, current_state |-> state,
              state_data |-> state_data, updated_at |-> now]}

\* INSERT INTO user_states ... ON CONFLICT (user_id) DO UPDATE SET
\* current_state = $2, state_data = $3, updated_at = NOW(): one statement.
Upsert(user_id, state, state_data) ==
    IF \E r \in user_states : r.user_id = user_id
    THEN {IF r.user_id = user_id
          THEN [r EXCEPT !.current_state = state, !.state_data = state_data,
                         !.updated_at = now]
          ELSE r : r \in user_states}
    ELSE user_states \cup
            {[user_id |-> user_id, current_state |-> state,
              state_data |-> state_data, updated_at |-> now]}

\* The request arrives and opens its connection.
update_user_state_start(user_id, state, data) ==
    /\ reqs' = Append(reqs, [NewReq("update_state", user_id) EXCEPT
                               !.pc = "exec", !.state = state, !.data = data,
                               !.at = now])
    /\ UNCHANGED <<users, dialogs, user_states, now>>

\* Lines 357-367: the statement, and the reply.
update_user_state_exec(i) ==
    /\ Req(i).kind = "update_state" /\ Req(i).pc = "exec"
    /\ user_states' = Upsert(Req(i).user_id, Req(i).state,
                             StateDataParam(Req(i).data))
    /\ now' = now + 1
    /\ reqs' = [reqs EXCEPT ![i] =
                  Finish([@ EXCEPT !.stmts = 1, !.done_at = now],
                         [NoResult EXCEPT !.status = "updated",
                                          !.state = SomeState(Req(i).state)])]
    /\ UNCHANGED <<users, dialogs>>

\* Mutant: a missing row is answered with an error.
StateReply_absent_is_error(rows) ==
    IF rows = {} THEN [NoResult EXCEPT !.status = "not_found"]
    ELSE LET row == CHOOSE r \in rows : TRUE
         IN  [NoResult EXCEPT
                !.status = "ok",
                !.state = SomeState(row.current_state),
                !.data = IF row.state_data.kind = "json"
                         THEN json_loads(row.state_data) ELSE DataNone]

\* Lines 376-389: the reply of GET /state for the fetched row, or for none.
StateReply(rows) ==
    IF rows = {} THEN [NoResult EXCEPT !.status = "ok"]
    ELSE LET row == CHOOSE r \in rows : TRUE
         IN  [NoResult EXCEPT
                !.status = "ok",
                !.state = SomeState(row.current_state),
                !.data = IF row.state_data.kind = "json"
                         THEN json_loads(row.state_data) ELSE DataNone]

get_user_state(user_id) ==
    /\ reqs' = Append(reqs,
          Finish([NewReq("get_state", user_id) EXCEPT !.at = now, !.stmts = 1],
                 StateReply({r \in user_states : r.user_id = user_id})))
    /\ UNCHANGED <<users, dialogs, user_states, now>>

NextState ==
    \/ \E u \in Users, st \in States, d \in Datas :
          Len(reqs) < MaxStateReqs /\ update_user_state_start(u, st, d)
    \/ \E i \in DOMAIN reqs : update_user_state_exec(i)
    \/ \E u \in Users : Len(reqs) < MaxStateReqs /\ get_user_state(u)

SpecState == Init /\ [][NextState]_vars

----------------------------------------------------------------------------
(* The context assembler over a long conversation: user 1 in chat 1, with  *)
(* turns of another user and of another chat logged in between.            *)

OwnTurns == {d \in dialogs : d.user_id = 1 /\ d.chat_id = 1}

NextCtx ==
    \/ /\ Cardinality(OwnTurns) < MaxCtxTurns
       /\ log_message(1, 1, Hello, FALSE)
    \/ /\ Cardinality(dialogs \ OwnTurns) < MaxForeign
       /\ \/ log_message(2, 1, Hello, TRUE)
          \/ log_message(1, 2, Hello, TRUE)
    \/ /\ Cardinality({i \in DOMAIN reqs : reqs[i].kind = "process"}) < MaxCtxProcess
       /\ process_message_start(1, 1, Hello)
    \/ \E i \in DOMAIN reqs :
          process_message_ml(i, [error |-> FALSE, response |-> Ans(3, 0)])
    \/ \E i \in DOMAIN reqs : process_message_check(i, FALSE)
    \/ \E i \in DOMAIN reqs : process_message_insert(i)

SpecCtx == Init /\ [][NextCtx]_vars

----------------------------------------------------------------------------
(* encrypt_data and decrypt_data on bytes.  A text is a sequence of        *)
(* characters, a byte string a sequence of numbers 0..255, a base64 text a *)
(* sequence of sextets 0..63 with 64 for "=".  AES itself is a keyed       *)
(* permutation of 16-byte blocks, here a bytewise addition of the key;     *)
(* padding, chaining, the encodings and the bundle are as in the code.     *)

MaxCryptoCalls == 2   \* encrypt_data calls in a behaviour of SpecCrypto

AES_BLOCK_SIZE == 16

\* The 32 bytes of ENCRYPTION_KEY.
KeyBytes == [j \in 1..32 |-> (7 * j + 3) % 256]

\* str.encode('utf-8') of one character: one, two and three byte forms.
Utf8Char(c) ==
    CASE c = "a" -> <<97>>
      [] c = "b" -> <<98>>
      [] c = "ya" -> <<209, 143>>        \* U+044F
      [] c = "euro" -> <<226, 130, 172>> \* U+20AC

CryptoChars == {"a", "b", "ya", "euro"}

RECURSIVE utf8_encode(_)
utf8_encode(text) ==
    IF text = <<>> THEN <<>>
    ELSE Utf8Char(Head(text)) \o utf8_encode(Tail(text))

\* The number of bytes of the character that starts with byte b; 0 when b
\* cannot start a character.
Utf8Width(b) ==
    IF b < 128 THEN 1
    ELSE IF b >= 194 /\ b <= 223 THEN 2
    ELSE IF b >= 224 /\ b <= 239 THEN 3
    ELSE 0

\* bytes.decode('utf-8'): [ok, v]; ok is FALSE where Python raises.
RECURSIVE utf8_decode(_)
utf8_decode(bytes) ==
    IF bytes = <<>> THEN [ok |-> TRUE, v |-> <<>>]
    ELSE LET w == Utf8Width(bytes[1])
         IN  IF w = 0 \/ w > Len(bytes) THEN [ok |-> FALSE, v |-> <<>>]
             ELSE LET cs == {c \in CryptoChars : Utf8Char(c) = SubSeq(bytes, 1, w)}
                      rest == utf8_decode(SubSeq(bytes, w + 1, Len(bytes)))
                  IN  IF cs = {} \/ ~rest.ok THEN [ok |-> FALSE, v |-> <<>>]
                      ELSE [ok |-> TRUE, v |-> <<CHOOSE c \in cs : TRUE>> \o rest.v]

\* Mutant: no padding block is added to data that fills its last block.
pad_no_full_block(data, block_size) ==
    LET n == (block_size - (Len(data) % block_size)) % block_size
    IN  data \o [j \in 1..n |-> n]

\* Crypto.Util.Padding.pad, PKCS7: n bytes of value n, 1 <= n <= block_size.
pad(data, block_size) ==
    LET n == block_size - (Len(data) % block_size)
    IN  data \o [j \in 1..n |-> n]

\* Crypto.Util.Padding.unpad: [ok, v]; ok is FALSE where it raises.
unpad(padded, block_size) ==
    LET len == Len(padded)
        n == IF len = 0 THEN 0 ELSE padded[len]
    IN  IF \/ len = 0
           \/ len % block_size # 0
           \/ n < 1
           \/ n > Min(block_size, len)
           \/ \E j \in (len - n + 1)..len : padded[j] # n
        THEN [ok |-> FALSE, v |-> <<>>]
        ELSE [ok |-> TRUE, v |-> SubSeq(padded, 1, len - n)]

RECURSIVE Xor(_, _)
Xor(a, b) ==
    IF a = 0 THEN b
    ELSE IF b = 0 THEN a
    ELSE ((a + b) % 2) + 2 * Xor(a \div 2, b \div 2)

XorBlock(x, y) == [j \in 1..AES_BLOCK_SIZE |-> Xor(x[j], y[j])]

\* The block cipher and its inverse under a 32-byte key.
BlockEncrypt(key, block) ==
    [j \in 1..AES_BLOCK_SIZE |-> (block[j] + key[j] + key[j + 16]) % 256]
BlockDecrypt(key, block) ==
    [j \in 1..AES_BLOCK_SIZE |-> (block[j] + 512 - key[j] - key[j + 16]) % 256]

Block(bytes, k) ==
    SubSeq(bytes, (k - 1) * AES_BLOCK_SIZE + 1, k * AES_BLOCK_SIZE)

\* cipher.encrypt in CBC mode: c[k] = E(p[k] xor c[k-1]), c[0] = iv.
RECURSIVE CbcEncrypt(_, _, _)
CbcEncrypt(key, iv, padded) ==
    IF padded = <<>> THEN <<>>
    ELSE LET c == BlockEncrypt(key, XorBlock(Block(padded, 1), iv))
         IN  c \o CbcEncrypt(key, c,
                             SubSeq(padded, AES_BLOCK_SIZE + 1, Len(padded)))

\* cipher.decrypt in CBC mode: p[k] = D(c[k]) xor c[k-1].
CbcDecrypt(key, iv, ct) ==
    LET nblocks == Len(ct) \div AES_BLOCK_SIZE
        prev(k) == IF k = 1 THEN iv ELSE Block(ct, k - 1)
        plain(k) == XorBlock(BlockDecrypt(key, Block(ct, k)), prev(k))
    IN  [j \in 1..Len(ct) |->
            plain(((j - 1) \div AES_BLOCK_SIZE) + 1)[((j - 1) % AES_BLOCK_SIZE) + 1]]

\* base64.b64encode: three bytes to four sextets, "=" to fill the last group.
RECURSIVE b64encode(_)
b64encode(bytes) ==
    IF bytes = <<>> THEN <<>>
    ELSE IF Len(bytes) = 1
    THEN <<bytes[1] \div 4, (bytes[1] % 4) * 16, 64, 64>>
    ELSE IF Len(bytes) = 2
    THEN <<bytes[1] \div 4, (bytes[1] % 4) * 16 + bytes[2] \div 16,
           (bytes[2] % 16) * 4, 64>>
    ELSE <<bytes[1] \div 4, (bytes[1] % 4) * 16 + bytes[2] \div 16,
           (bytes[2] % 16) * 4 + bytes[3] \div 64, bytes[3] % 64>>
         \o b64encode(SubSeq(bytes, 4, Len(bytes)))

\* base64.b64decode of a well-formed text: four sextets to three bytes.
RECURSIVE b64decode(_)
b64decode(text) ==
    IF Len(text) < 4 THEN <<>>
    ELSE LET s == SubSeq(text, 1, 4)
             b1 == s[1] * 4 + s[2] \div 16
             b2 == (s[2] % 16) * 16 + s[3] \div 4
             b3 == (s[3] % 4) * 64 + s[4]
         IN  IF s[3] = 64 THEN <<b1>>
             ELSE IF s[4] = 64 THEN <<b1, b2>>
             ELSE <<b1, b2, b3>> \o b64decode(SubSeq(text, 5, Len(text)))

\* encrypt_data under a key, with the IV the new cipher object drew.
EncryptWith(key, data, iv) ==
    [iv |-> b64encode(iv),
     ciphertext |-> b64encode(CbcEncrypt(key, iv,
                                         pad(utf8_encode(data), AES_BLOCK_SIZE)))]

\* decrypt_data under a key: [ok, v]; ok is FALSE where an exception leaves
\* the function (a bad IV or ciphertext length, the padding, the decoding).
DecryptWith(key, encrypted_data) ==
    LET iv == b64decode(encrypted_data.iv)
        ct == b64decode(encrypted_data.ciphertext)
    IN  IF Len(iv) # AES_BLOCK_SIZE \/ Len(ct) % AES_BLOCK_SIZE # 0
        THEN [ok |-> FALSE, v |-> <<>>]
        ELSE LET pt == unpad(CbcDecrypt(key, iv, ct), AES_BLOCK_SIZE)
             IN  IF pt.ok THEN utf8_decode(pt.v) ELSE [ok |-> FALSE, v |-> <<>>]

\* The texts encrypted: empty, one character of each width, and texts whose
\* bytes end just before, at and just after a block boundary.
Rep(c, n) == [j \in 1..n |-> c]
CryptoTexts ==
    {<<>>, <<"a">>, <<"ya", "b">>, Rep("a", 15), Rep("b", 16),
     <<"euro">> \o Rep("a", 14), Rep("a", 31) \o <<"ya">>}

\* get_random_bytes(16) as the cipher object calls it for its IV: the
\* generator is taken to be ideal, so a value it gave is never given again.
Iv(seed) == [j \in 1..AES_BLOCK_SIZE |-> (seed * 37 + j * 11) % 256]
IvPool == {Iv(0), Iv(1), Iv(2)}
DrawnIvs == {b64decode(reqs[k].bundle.iv) : k \in DOMAIN reqs}

\* One call of encrypt_data.
encrypt_call(data, iv) ==
    /\ iv \notin DrawnIvs
    /\ reqs' = Append(reqs, [NewReq("crypto", 0) EXCEPT
                               !.pc = "decrypt", !.text = data, !.at = now,
                               !.bundle = EncryptWith(KeyBytes, data, iv)])
    /\ UNCHANGED <<users, dialogs, user_states, now>>

\* One call of decrypt_data, given nothing but a bundle made earlier.
decrypt_call(i) ==
    /\ Req(i).kind = "crypto" /\ Req(i).pc = "decrypt"
    /\ LET pt == DecryptWith(KeyBytes, Req(i).bundle)
       IN  reqs' = [reqs EXCEPT ![i] =
              Finish([@ EXCEPT !.plain = pt.v, !.decrypts = 1],
                     [NoResult EXCEPT
                        !.status = IF pt.ok THEN "ok" ELSE "raised"])]
    /\ UNCHANGED <<users, dialogs, user_states, now>>

NextCrypto ==
    \/ \E data \in CryptoTexts, iv \in IvPool :
          Len(reqs) < MaxCryptoCalls /\ encrypt_call(data, iv)
    \/ \E i \in DOMAIN reqs : decrypt_call(i)

SpecCrypto == Init /\ [][NextCrypto]_vars

----------------------------------------------------------------------------
(* The service restarted on a store it wrote to before.  ENCRYPTION_KEY    *)
(* was not in the environment, so each start generated its own key: the    *)
(* rows of the earlier run are encrypted under a key this run does not     *)
(* have.                                                                   *)

MaxFaultReqs == 3   \* requests received in a behaviour of SpecFault

PreviousKey == "previous key"
OldMessageId == 0 - 1
OldLogId == 0 - 2

\* What /process and /log_message of the earlier run left for user 1.
OldRows ==
    {[message_id |-> OldMessageId, user_id |-> 1, chat_id |-> 1,
      message_text |-> PlainCell(Hello), is_bot_message |-> FALSE,
      sent_at |-> 1, read_at |-> 0,
      full_answer |-> [kind |-> "enc", iv |-> OldMessageId,
                       key |-> PreviousKey, pt |-> Ans(3, 0)]],
     [message_id |-> OldLogId, user_id |-> 1, chat_id |-> 1,
      message_text |-> [kind |-> "enc", iv |-> OldLogId,
                        key |-> PreviousKey, pt |-> Ans(3, 0)],
      is_bot_message |-> TRUE, sent_at |-> 2, read_at |-> 0,
      full_answer |-> NullCell]}

InitFault ==
    /\ users = [u \in Users |-> "auth"]
    /\ dialogs = OldRows
    /\ user_states = {}
    /\ reqs = <<>>
    /\ now = 3

NextFault ==
    \/ authorize_user(1)
    \/ execute_query_revoke(1)
    \/ Len(reqs) < MaxFaultReqs /\ process_message_start(1, 1, Hello)
    \/ \E i \in DOMAIN reqs :
          process_message_ml(i, [error |-> FALSE, response |-> Ans(3, 0)])
    \/ \E i \in DOMAIN reqs : process_message_check(i, FALSE)
    \/ \E i \in DOMAIN reqs : process_message_insert(i)
    \/ Len(reqs) < MaxFaultReqs /\ log_message(1, 1, Hello, TRUE)
    \/ \E u \in Users, m \in {OldMessageId} \cup DOMAIN reqs, fails \in BOOLEAN :
          Len(reqs) < MaxFaultReqs /\ get_full_answer_start(u, m, fails)
    \/ \E i \in DOMAIN reqs : get_full_answer_fetch(i)
    \/ \E i \in DOMAIN reqs : get_full_answer_stamp(i)
    \/ /\ Len(reqs) < MaxFaultReqs
       /\ get_dialog_history_start(1, HISTORY_DEFAULT_LIMIT, FALSE)
    \/ \E i \in DOMAIN reqs : get_dialog_history_fetch(i)

SpecFault == InitFault /\ [][NextFault]_vars

----------------------------------------------------------------------------
(* The dialogue service over a storage whose writes may fail. *)

MaxStoreReqs == 2   \* requests received in a behaviour of SpecStore

NextStore ==
    \/ register_user(1)
    \/ authorize_user(1)
    \/ \E u \in Users :
          Len(reqs) < MaxStoreReqs /\ process_message_start(u, 1, Hello)
    \/ \E i \in DOMAIN reqs,
          result \in {[error |-> FALSE, response |-> Ans(3, 0)],
                      [error |-> FALSE, response |-> Ans(120, 2)],
                      [error |-> TRUE, response |-> <<>>]} :
          process_message_ml(i, result)
    \/ \E i \in DOMAIN reqs, fails \in BOOLEAN : process_message_check(i, fails)
    \/ \E i \in DOMAIN reqs : process_message_insert(i)
    \/ \E i \in DOMAIN reqs : process_message_insert_fails(i)
    \/ \E u \in Users :
          Len(reqs) < MaxStoreReqs /\ log_message(u, 1, Hello, FALSE)

SpecStore == Init /\ [][NextStore]_vars

----------------------------------------------------------------------------
(* Properties of the disclosure and retrieval paths, checked under Spec *)

Done(kind) == {i \in DOMAIN reqs : reqs[i].kind = kind /\ reqs[i].pc = "done"}
Of(kind) == {i \in DOMAIN reqs : reqs[i].kind = kind}

\* The request that takes a step from the current state to the next.
Steps(i) == i \notin DOMAIN reqs \/ reqs[i] # reqs'[i]

\* Rows holding an encrypted full answer under the given message id.
AnswerRows(message_id) ==
    {d \in dialogs : d.message_id = message_id /\ d.full_answer.kind = "enc"}

\* C1: /full_answer for a user the oracle does not report as authorized (a
\* verdict of false, or no verdict) ends at once with "Not authorized": no
\* database statement was issued, nothing was decrypted, the reply carries
\* no answer, and the step changes no row.
C1_State ==
    \A i \in Of("full") :
        reqs[i].oracle # "true" =>
            /\ reqs[i].pc = "done"
            /\ reqs[i].res.status = "not_authorized"
            /\ reqs[i].res.full_answer = None
            /\ reqs[i].res.truncated_answer = None
            /\ reqs[i].res.history = <<>>
            /\ reqs[i].stmts = 0
            /\ reqs[i].decrypts = 0

C1_Step ==
    \A i \in DOMAIN reqs' :
        (Steps(i) /\ reqs'[i].kind = "full" /\ reqs'[i].oracle # "true")
            => dialogs' = dialogs

C1_NotAuthorizedImmediately == [](C1_State) /\ [][C1_Step]_vars

C1_Witness ==
    \E i \in Done("full") :
        /\ reqs[i].oracle = "false"
        /\ \E d \in AnswerRows(reqs[i].message_id) : d.user_id = reqs[i].user_id

\* C2: /full_answer by user A for a message id whose row belongs to another
\* user B never reaches the decryption, replies "not found" or "not
\* authorized" without an answer, and no step of it changes a row of B.
C2_State ==
    \A i \in Of("full") : \A d \in dialogs :
        (d.message_id = reqs[i].message_id /\ d.user_id # reqs[i].user_id) =>
            /\ reqs[i].pc # "stamp"
            /\ reqs[i].plain = <<>>
            /\ reqs[i].pc = "done" =>
                  /\ reqs[i].res.status \in {"not_found", "not_authorized"}
                  /\ reqs[i].res.full_answer = None

C2_Step ==
    \A i \in DOMAIN reqs' :
        (Steps(i) /\ reqs'[i].kind = "full") =>
            \A d \in dialogs : d.user_id # reqs'[i].user_id => d \in dialogs'

C2_NeverAnotherUsersAnswer == [](C2_State) /\ [][C2_Step]_vars

C2_Witness ==
    \E i \in Done("full") :
        /\ reqs[i].oracle = "true"
        /\ reqs[i].res.status = "not_found"
        /\ \E d \in AnswerRows(reqs[i].message_id) :
              d.user_id # reqs[i].user_id /\ d.read_at = 0

\* C3: the authorization a request decides on is the verdict the auth
\* service gave to that request's own query, computed from the users table
\* as it was at that query; the outcome of the request follows that verdict.
C3_State ==
    \A i \in DOMAIN reqs :
        LET r == reqs[i] IN
        r.oracle # "none" =>
            /\ r.authorized = (r.oracle = "true")
            /\ (r.kind = "process" /\ r.pc = "done") =>
                  /\ r.res.full_answer.some = (r.oracle = "true")
                  /\ r.res.truncated_answer.some = (r.oracle # "true")
            /\ (r.kind = "full" /\ r.pc = "done") =>
                  (r.res.status = "not_authorized") = (r.oracle # "true")
            /\ (r.kind = "history" /\ r.pc = "done" /\ r.oracle # "true") =>
                  \A j \in DOMAIN r.res.history : ~r.res.history[j].full_answer.some

C3_Step ==
    \A i \in DOMAIN reqs' :
        (Steps(i) /\ reqs'[i].oracle # "none"
            /\ (i \notin DOMAIN reqs \/ reqs[i].oracle = "none")) =>
                reqs'[i].oracle \in
                    {"fail", IF users[reqs'[i].user_id] = "auth" THEN "true" ELSE "false"}

C3_FreshAuthorization == [](C3_State) /\ [][C3_Step]_vars

\* An answer given in full to an authorized user is refused to the same
\* user once the authorization is gone.
C3_Witness ==
    \E i \in Done("process"), j \in Done("full") :
        /\ reqs[j].user_id = reqs[i].user_id
        /\ reqs[j].message_id = reqs[i].message_id
        /\ reqs[i].res.full_answer.some
        /\ reqs[j].oracle = "false"
        /\ reqs[j].res.status = "not_authorized"

\* C4: /process for a user the oracle reports as authorized replies with
\* full_answer = the answer get_ml_response returned (the ML service's
\* response unless that call failed) and truncated_answer = null.
C4_AuthorizedGetsFullAnswer ==
    \A i \in Done("process") :
        LET r == reqs[i] IN
        r.oracle = "true" =>
            /\ r.res.full_answer = Some(r.answer)
            /\ r.res.truncated_answer = None
            /\ ~r.ml_failed => r.answer \in Answers

C4_Witness ==
    \E i \in Done("process") :
        /\ reqs[i].oracle = "true"
        /\ reqs[i].res.full_answer = Some(Ans(120, 2))

EndsWithMarker(t) ==
    /\ Len(t) >= Len(Marker)
    /\ SubSeq(t, Len(t) - Len(Marker) + 1, Len(t)) = Marker

StripMarker(t) ==
    IF EndsWithMarker(t) THEN SubSeq(t, 1, Len(t) - Len(Marker)) ELSE t

\* C5: /process for a user the oracle does not report as authorized replies
\* with full_answer = null and a truncated_answer that, without its
\* marker, is the first min(len(A), 100) characters of the answer A.
C5_UnauthorizedGetsPrefix ==
    \A i \in Done("process") :
        LET r == reqs[i] IN
        r.oracle # "true" =>
            /\ r.res.full_answer = None
            /\ r.res.truncated_answer.some
            /\ StripMarker(r.res.truncated_answer.v) =
                  SubSeq(r.answer, 1, Min(Len(r.answer), MAX_TRUNCATED_LENGTH))
            /\ Len(StripMarker(r.res.truncated_answer.v)) <= MAX_TRUNCATED_LENGTH

C5_Witness ==
    \E i \in Done("process") :
        /\ reqs[i].oracle = "false"
        /\ reqs[i].answer = Ans(120, 2)
        /\ EndsWithMarker(reqs[i].res.truncated_answer.v)

\* The one character U+2026.
Ellipsis == <<"U+2026">>

\* C6 as stated: the marker is the single character U+2026.
C6_Original ==
    \A i \in Done("process") :
        LET r == reqs[i] IN
        r.oracle # "true" =>
            r.res.truncated_answer.v =
                IF Len(r.answer) <= MAX_TRUNCATED_LENGTH THEN r.answer
                ELSE SubSeq(r.answer, 1, MAX_TRUNCATED_LENGTH) \o Ellipsis

\* C6, amended: for an unauthorized user the truncated answer is the answer
\* A unchanged when len(A) <= 100, and the first 100 characters of A
\* followed by three full stops "..." when len(A) > 100.
C6_ThreeDotMarker ==
    \A i \in Done("process") :
        LET r == reqs[i] IN
        r.oracle # "true" =>
            r.res.truncated_answer.v =
                IF Len(r.answer) <= MAX_TRUNCATED_LENGTH THEN r.answer
                ELSE SubSeq(r.answer, 1, MAX_TRUNCATED_LENGTH) \o <<".", ".", ".">>

C6_Witness ==
    \E i \in Done("process") :
        /\ reqs[i].oracle = "false"
        /\ Len(reqs[i].answer) = 120
        /\ Len(reqs[i].res.truncated_answer.v) = 103

\* C7: the message id /process replies with names a row of that user
\* holding the full answer, whichever way the disclosure went; and a
\* /full_answer of the owner, started after that row was written and
\* granted by the oracle, replies with exactly that answer and leaves
\* read_at set.
C7_ReturnedIdRetrievesFullAnswer ==
    /\ \A i \in Done("process") :
          \E d \in dialogs :
              /\ d.message_id = reqs[i].res.message_id
              /\ d.user_id = reqs[i].user_id
              /\ CanDecrypt(d.full_answer)
              /\ decrypt_data(d.full_answer) = reqs[i].answer
    /\ \A j \in Done("full") : \A i \in Done("process") :
          ( /\ reqs[j].message_id = reqs[i].res.message_id
            /\ reqs[j].user_id = reqs[i].user_id
            /\ reqs[j].oracle = "true"
            /\ \E d \in dialogs :
                  d.message_id = reqs[j].message_id /\ d.sent_at < reqs[j].at )
          => /\ reqs[j].res.status = "ok"
             /\ reqs[j].res.full_answer = Some(reqs[i].answer)
             /\ \A d \in dialogs :
                   d.message_id = reqs[j].message_id => d.read_at # 0

C7_Witness ==
    \E i \in Done("process"), j \in Done("full") :
        /\ reqs[i].oracle = "false"
        /\ Len(reqs[i].answer) = 120
        /\ reqs[i].res.truncated_answer.some
        /\ reqs[j].message_id = reqs[i].res.message_id
        /\ reqs[j].user_id = reqs[i].user_id
        /\ reqs[j].res.full_answer = Some(reqs[i].answer)
        /\ \E d \in dialogs : d.message_id = reqs[j].message_id /\ d.read_at # 0

\* C8: a /history reply for a user the oracle does not report as authorized
\* has no full_answer on any item, and every item of any /history reply is
\* a row whose user_id is the requested one.
C8_HistoryWithholdsAndScopes ==
    \A i \in Done("history") :
        LET r == reqs[i] IN
        \A j \in DOMAIN r.res.history :
            /\ r.oracle # "true" => ~r.res.history[j].full_answer.some
            /\ \E d \in dialogs :
                  /\ d.message_id = r.res.history[j].message_id
                  /\ d.user_id = r.user_id

C8_Witness ==
    \E i \in Done("history") :
        /\ reqs[i].oracle = "false"
        /\ \E j \in DOMAIN reqs[i].res.history :
              AnswerRows(reqs[i].res.history[j].message_id) # {}

----------------------------------------------------------------------------
(* The context window, checked under SpecCtx *)

\* The turns of the request's user and chat stored before its context query.
PriorTurns(r) ==
    {d \in dialogs : d.user_id = r.user_id /\ d.chat_id = r.chat_id
                        /\ d.sent_at < r.at}

\* C9: with n prior turns of the (user, chat) pair, the context holds the
\* min(n, 10) most recent of them, oldest first (entry j is the turn with
\* exactly k - j newer prior turns), none of another user or chat, then the
\* new message as a "user" entry; 11 entries for n = 15, n + 1 for n < 10;
\* and the step that builds it changes no table.
C9_State ==
    \A i \in Of("process") :
        LET r == reqs[i]
            prior == PriorTurns(r)
            n == Cardinality(prior)
            k == Min(n, CONTEXT_LIMIT)
        IN  /\ Len(r.context) = k + 1
            /\ Len(r.ctx_ids) = k
            /\ n = 15 => Len(r.context) = 11
            /\ n < 10 => Len(r.context) = n + 1
            /\ r.context[k + 1] = [role |-> "user", content |-> PlainCell(r.text)]
            /\ \A j \in 1..k :
                  \E d \in prior :
                      /\ d.message_id = r.ctx_ids[j]
                      /\ r.context[j].content = d.message_text
                      /\ Cardinality({e \in prior : e.sent_at > d.sent_at}) = k - j

C9_Step ==
    \A i \in DOMAIN reqs' :
        (i \notin DOMAIN reqs /\ reqs'[i].kind = "process") =>
            /\ dialogs' = dialogs
            /\ user_states' = user_states
            /\ users' = users

C9_ContextWindow == [](C9_State) /\ [][C9_Step]_vars

C9_Witness ==
    \E i \in Of("process") :
        /\ Cardinality(PriorTurns(reqs[i])) = 15
        /\ Len(reqs[i].context) = 11
        /\ \E d \in dialogs \ OwnTurns : d.sent_at < reqs[i].at

----------------------------------------------------------------------------
(* The state ledger, checked under SpecState *)

StateRows(u) == {r \in user_states : r.user_id = u}
Updates(u) == {i \in Done("update_state") : reqs[i].user_id = u}

\* Two requests whose lifetimes overlap: each arrived before the other's
\* statement ran.
Concurrent(i, j) ==
    /\ i # j
    /\ reqs[i].at <= reqs[j].done_at
    /\ reqs[j].at <= reqs[i].done_at

\* C10: once /update_state calls for a user have completed, concurrent or
\* not, the table holds exactly one row for the user, and the row's
\* current_state and state_data are both those one and the same call wrote.
C10_OneWholeState ==
    \A u \in Users :
        /\ Updates(u) # {} => Cardinality(StateRows(u)) = 1
        /\ \A row \in StateRows(u) :
              \E i \in Updates(u) :
                  /\ row.current_state = reqs[i].state
                  /\ row.state_data = StateDataParam(reqs[i].data)

C10_Witness ==
    \E u \in Users : \E i, j \in Updates(u) :
        /\ Concurrent(i, j)
        /\ reqs[i].state # reqs[j].state
        /\ StateDataParam(reqs[i].data) # StateDataParam(reqs[j].data)
        /\ \E row \in StateRows(u) :
              row.current_state = reqs[j].state
                 /\ row.state_data = StateDataParam(reqs[j].data)

----------------------------------------------------------------------------
(* The crypto-at-rest store, checked under SpecCrypto *)

Crypto == Of("crypto")

\* C11: decrypt_data(encrypt_data(x)) = x: every bundle, given alone to
\* decrypt_data under the process key, yields the text it was made from
\* without raising; its IV is 16 bytes; and two calls, also two calls on
\* the same text, have different IVs and so different bundles.
C11_RoundTripDistinctIv ==
    /\ \A i \in Crypto :
          LET r == reqs[i] IN
          /\ Len(b64decode(r.bundle.iv)) = AES_BLOCK_SIZE
          /\ r.pc = "done" => r.res.status = "ok" /\ r.plain = r.text
    /\ \A i, j \in Crypto :
          i # j => /\ reqs[i].bundle.iv # reqs[j].bundle.iv
                   /\ reqs[i].bundle # reqs[j].bundle

\* Two calls on the same text, of 16 bytes, both decrypted.
C11_Witness ==
    \E i, j \in Done("crypto") :
        /\ i # j
        /\ reqs[i].text = Rep("b", 16) /\ reqs[j].text = reqs[i].text
        /\ reqs[i].plain = reqs[i].text /\ reqs[j].plain = reqs[j].text
        /\ reqs[i].bundle.ciphertext # reqs[j].bundle.ciphertext

----------------------------------------------------------------------------
(* Failures of the collaborators *)

\* C12: a /process whose ML call failed ends all the same: its answer is
\* the apology, the reply carries the apology (whole: it is shorter than
\* the truncation length) and the id of a row of the user whose full_answer
\* decrypts to the apology; and under SpecLive no such request stays
\* pending.
C12_State ==
    \A i \in Done("process") :
        LET r == reqs[i] IN
        r.ml_failed =>
            /\ r.answer = Fallback
            /\ r.res.status = "ok"
            /\ \/ r.res.full_answer = Some(Fallback)
               \/ r.res.truncated_answer = Some(Fallback)
            /\ \E d \in dialogs :
                  /\ d.message_id = r.res.message_id
                  /\ d.user_id = r.user_id /\ d.chat_id = r.chat_id
                  /\ CanDecrypt(d.full_answer)
                  /\ decrypt_data(d.full_answer) = Fallback

C12_Completes ==
    \A i \in 1..MaxReqs :
        (i \in DOMAIN reqs /\ reqs[i].kind = "process" /\ reqs[i].ml_failed)
            ~> (i \in DOMAIN reqs /\ reqs[i].pc = "done")

C12_FallbackTurnCompletes == [](C12_State) /\ C12_Completes

C12_Witness ==
    \E i \in Done("process") :
        /\ reqs[i].ml_failed
        /\ reqs[i].res.truncated_answer = Some(Fallback)
        /\ \E d \in dialogs : d.message_id = reqs[i].res.message_id

\* C13: GET /state writes nothing, and for a user without a row in
\* user_states it replies normally with state = null and data = null.
C13_Step ==
    \A i \in DOMAIN reqs' :
        (i \notin DOMAIN reqs /\ reqs'[i].kind = "get_state") =>
            /\ user_states' = user_states
            /\ dialogs' = dialogs
            /\ StateRows(reqs'[i].user_id) = {} =>
                  /\ reqs'[i].pc = "done"
                  /\ reqs'[i].res.status = "ok"
                  /\ reqs'[i].res.state = NoState
                  /\ reqs'[i].res.data = DataNone

C13_AbsentStateIsNull == [][C13_Step]_vars

\* A user without a row has been answered while another user has a row.
C13_Witness ==
    \E i \in Done("get_state") :
        /\ StateRows(reqs[i].user_id) = {}
        /\ reqs[i].res.state = NoState /\ reqs[i].res.data = DataNone
        /\ user_states # {}

----------------------------------------------------------------------------
(* The stored turns *)

\* C14: no row of dialogs with is_bot_message false has a full_answer.
C14_FullAnswerOnlyOnBotTurns ==
    \A d \in dialogs : ~d.is_bot_message => d.full_answer = NullCell

\* C15: every text column of every row of dialogs that is not NULL holds an
\* {iv, ciphertext} bundle; no row holds a plaintext.
C15_EveryTextFieldEncrypted ==
    \A d \in dialogs :
        /\ d.message_text # NullCell => d.message_text.kind = "enc"
        /\ d.full_answer # NullCell => d.full_answer.kind = "enc"

\* C17: the context entry of a prior turn has the turn's role ("assistant"
\* for a bot turn, "user" otherwise) and, as content, the plaintext of the
\* turn's message_text; no entry of a context is a bundle.
C17_ContextIsPlaintext ==
    \A i \in Of("process") :
        LET r == reqs[i] IN
        /\ \A j \in DOMAIN r.context : r.context[j].content.kind # "enc"
        /\ \A j \in DOMAIN r.ctx_ids :
              \E d \in dialogs :
                  /\ d.message_id = r.ctx_ids[j]
                  /\ r.context[j].role =
                        (IF d.is_bot_message THEN "assistant" ELSE "user")
                  /\ d.message_text # NullCell =>
                        r.context[j].content = PlainCell(d.message_text.pt)

\* C18: a /process whose authorization call failed replies with the
\* apology, and the row it stores records the apology.
C18_OracleFailureGivesFallback ==
    \A i \in Done("process") :
        LET r == reqs[i] IN
        r.oracle = "fail" =>
            /\ \/ r.res.full_answer = Some(Fallback)
               \/ r.res.truncated_answer = Some(Fallback)
            /\ \A d \in dialogs :
                  d.message_id = r.res.message_id =>
                      decrypt_data(d.full_answer) = Fallback

\* C19: the reply of a /process whose ML call failed differs, in something
\* other than the message id, from the reply of every /process whose ML
\* call succeeded.
C19_GenerationFailureIsTyped ==
    \A i, j \in Done("process") :
        (reqs[i].ml_failed /\ ~reqs[j].ml_failed) =>
            [reqs[i].res EXCEPT !.message_id = 0] #
                [reqs[j].res EXCEPT !.message_id = 0]

----------------------------------------------------------------------------
(* Retrieval and decryption failures, checked under SpecFault *)

\* The row a /full_answer request names, if the requester owns it.
OwnRow(r) == {d \in dialogs : d.message_id = r.message_id /\ d.user_id = r.user_id}

\* C16: a row's read_at is set only when a /full_answer of the row's owner
\* was granted by the oracle, found the row and decrypted its full_answer;
\* read_at changes in no step but the last step of such a request; and a
\* request that ends "not authorized", "not found" or in a decryption
\* failure changes no row.
C16_State ==
    \A d \in dialogs :
        d.read_at # 0 =>
            \E j \in Done("full") :
                /\ reqs[j].user_id = d.user_id
                /\ reqs[j].message_id = d.message_id
                /\ reqs[j].oracle = "true"
                /\ reqs[j].at <= d.read_at
                /\ CanDecrypt(d.full_answer)
                /\ reqs[j].plain = decrypt_data(d.full_answer)
                /\ reqs[j].res.status = "ok"

C16_Step ==
    /\ \A d \in dialogs : \A e \in dialogs' :
          (e.message_id = d.message_id /\ e.read_at # d.read_at) =>
              \E i \in DOMAIN reqs :
                  /\ reqs[i].kind = "full" /\ reqs[i].pc = "stamp"
                  /\ reqs[i].message_id = d.message_id
                  /\ reqs[i].user_id = d.user_id
                  /\ reqs'[i].pc = "done" /\ reqs'[i].res.status = "ok"
    /\ \A d \in dialogs' : d \notin dialogs /\ d.read_at # 0 =>
          \E e \in dialogs : e.message_id = d.message_id
    /\ \A i \in DOMAIN reqs' :
          ( /\ Steps(i) /\ reqs'[i].kind = "full"
            /\ reqs'[i].res.status \in {"not_authorized", "not_found", "error500"} )
          => dialogs' = dialogs

Undecryptable(cell) == Truthy(cell) /\ ~CanDecrypt(cell)

\* C20: where a field cannot be decrypted, /history and /full_answer still
\* answer, with the placeholder in place of the field, and no step of
\* either changes a row.
C20_State ==
    /\ \A i \in Done("history") :
          \A j \in DOMAIN reqs[i].res.history :
              \A d \in dialogs :
                  d.message_id = reqs[i].res.history[j].message_id =>
                      /\ Undecryptable(d.message_text) =>
                            reqs[i].res.history[j].message_text
                               = Some(DecryptErrorText)
                      /\ (IncludesFullAnswer(reqs[i].authorized, d)
                            /\ Undecryptable(d.full_answer)) =>
                            reqs[i].res.history[j].full_answer
                               = Some(DecryptErrorText)
    /\ \A i \in Done("full") :
          (reqs[i].decrypts > 0
             /\ \E d \in OwnRow(reqs[i]) : Undecryptable(d.full_answer)) =>
                /\ reqs[i].res.status = "ok"
                /\ reqs[i].res.full_answer = Some(DecryptErrorText)

C20_Step ==
    \A i \in DOMAIN reqs' :
        ( /\ Steps(i) /\ reqs'[i].kind \in {"full", "history"}
          /\ \E d \in dialogs :
                /\ d.user_id = reqs'[i].user_id
                /\ Undecryptable(d.full_answer) \/ Undecryptable(d.message_text)
                /\ reqs'[i].kind = "full" => d.message_id = reqs'[i].message_id )
        => dialogs' = dialogs

C20_DecryptionFailureIsRedacted == [](C20_State) /\ [][C20_Step]_vars

----------------------------------------------------------------------------
(* The storage write of /process, checked under SpecStore *)

RowsOf(message_id) == {d \in dialogs : d.message_id = message_id}

\* C21: a /process has no row under its message id before its INSERT; if
\* the INSERT fails the reply carries no answer and no message id and there
\* is still no row; if it succeeds there is exactly one row, with the
\* request's user_id and chat_id, the message text and the full answer.
C21_TurnWrittenWholeOrNotAtAll ==
    \A i \in Of("process") :
        LET r == reqs[i]
            rows == RowsOf(r.message_id)
        IN  /\ r.pc # "done" => rows = {}
            /\ (r.pc = "done" /\ r.res.status # "ok") =>
                  /\ rows = {}
                  /\ r.res.full_answer = None
                  /\ r.res.truncated_answer = None
                  /\ r.res.message_id = 0
            /\ (r.pc = "done" /\ r.res.status = "ok") =>
                  /\ Cardinality(rows) = 1
                  /\ \A d \in rows :
                        /\ d.user_id = r.user_id /\ d.chat_id = r.chat_id
                        /\ d.message_text.pt = r.text
                        /\ d.message_text # NullCell
                        /\ CanDecrypt(d.full_answer)
                        /\ decrypt_data(d.full_answer) = r.answer

\* One turn was refused by the storage and left no row; another was stored.
C21_Witness ==
    \E i, j \in Done("process") :
        /\ reqs[i].res.status = "error500" /\ RowsOf(reqs[i].message_id) = {}
        /\ reqs[j].res.status = "ok" /\ RowsOf(reqs[j].message_id) # {}

----------------------------------------------------------------------------
(* The state ledger read back, checked under SpecState *)

\* C22: a GET /state that follows a completed /update_state of the same
\* user, every other writer of that user having finished before that update
\* began, replies with the state and the data of that update, whatever the
\* data; there is at most one row per user; and an update changes no row of
\* another user.
C22_State ==
    /\ \A u \in Users : Cardinality(StateRows(u)) <= 1
    /\ \A j \in Done("get_state") : \A i \in Done("update_state") :
          ( /\ reqs[i].user_id = reqs[j].user_id
            /\ reqs[i].done_at < reqs[j].at
            /\ \A k \in Of("update_state") \ {i} :
                  reqs[k].user_id = reqs[i].user_id =>
                      reqs[k].pc = "done" /\ reqs[k].done_at < reqs[i].at )
          => /\ reqs[j].res.state = SomeState(reqs[i].state)
             /\ reqs[j].res.data = reqs[i].data

C22_Step ==
    \A i \in DOMAIN reqs :
        (reqs[i].kind = "update_state" /\ reqs[i] # reqs'[i]) =>
            \A r \in user_states :
                r.user_id # reqs[i].user_id => r \in user_states'

C22_UpdateThenFetchRoundTrip == [](C22_State) /\ [][C22_Step]_vars

----------------------------------------------------------------------------
(* Repeated retrieval, checked under SpecFault *)

\* C23: every /full_answer that is granted and finds a decryptable answer
\* of the requester goes on to the stamp, whether or not the row was read
\* before; its stamp sets read_at to the time of the stamp, a later time
\* than any earlier stamp; its reply is the plaintext of the stored answer,
\* the same for every such retrieval; and no step changes a stored
\* full_answer.
C23_State ==
    \A j \in Done("full") :
        reqs[j].res.status = "ok" =>
            /\ reqs[j].done_at # 0
            /\ \A d \in OwnRow(reqs[j]) :
                  /\ CanDecrypt(d.full_answer)
                  /\ reqs[j].res.full_answer = Some(decrypt_data(d.full_answer))
                  /\ d.read_at >= reqs[j].done_at

C23_Step ==
    /\ \A d \in dialogs :
          \E e \in dialogs' :
              e.message_id = d.message_id /\ e.full_answer = d.full_answer
    /\ \A i \in DOMAIN reqs :
          (reqs[i].kind = "full" /\ reqs[i] # reqs'[i]) =>
              /\ ( /\ reqs[i].pc = "fetch"
                   /\ \E d \in OwnRow(reqs[i]) : CanDecrypt(d.full_answer) )
                 => /\ reqs'[i].pc = "stamp"
                    /\ \A d \in OwnRow(reqs[i]) :
                          reqs'[i].plain = decrypt_data(d.full_answer)
              /\ reqs[i].pc = "stamp" =>
                    /\ reqs'[i].res.status = "ok"
                    /\ reqs'[i].res.full_answer = Some(reqs[i].plain)
                    /\ \A d \in RowsOf(reqs[i].message_id) : d.read_at < now
                    /\ \A e \in dialogs' :
                          e.message_id = reqs[i].message_id => e.read_at = now

C23_RetrievalIsRepeatable == [](C23_State) /\ [][C23_Step]_vars

\* A second retrieval, begun after the first one's stamp, got the same
\* answer and stamped the row again.
C23_Witness ==
    \E i, j \in Done("full") :
        /\ reqs[i].user_id = reqs[j].user_id
        /\ reqs[i].message_id = reqs[j].message_id
        /\ reqs[i].res.status = "ok" /\ reqs[j].res.status = "ok"
        /\ reqs[j].at > reqs[i].done_at
        /\ reqs[j].res.full_answer = reqs[i].res.full_answer
        /\ \E d \in OwnRow(reqs[j]) :
              d.read_at = reqs[j].done_at /\ d.read_at > reqs[i].done_at

----------------------------------------------------------------------------
(* Failure of the authorization oracle, checked under Spec *)

\* C24: a request whose call to the auth service failed, or was answered
\* without a verdict, is handled as unauthorized: /process replies without
\* full_answer, /full_answer replies "Not authorized" before any statement
\* or decryption, and no item of /history carries a full answer.
C24_OracleFailureDeniesFullAnswer ==
    \A i \in DOMAIN reqs :
        reqs[i].oracle = "fail" =>
            /\ ~reqs[i].authorized
            /\ reqs[i].res.full_answer = None
            /\ (reqs[i].kind = "process" /\ reqs[i].pc = "done") =>
                  /\ reqs[i].res.status = "ok"
                  /\ reqs[i].res.truncated_answer = Some(Truncate(reqs[i].answer))
            /\ reqs[i].kind = "full" =>
                  /\ reqs[i].pc = "done"
                  /\ reqs[i].res.status = "not_authorized"
                  /\ reqs[i].stmts = 0 /\ reqs[i].decrypts = 0
            /\ reqs[i].kind = "history" =>
                  \A k \in DOMAIN reqs[i].res.history :
                      reqs[i].res.history[k].full_answer = None

\* The auth service was out of reach for a retrieval by a user it holds as
\* authorized, of an answer of theirs that is stored.
C24_Witness ==
    \E j \in Done("full") :
        /\ reqs[j].oracle = "fail"
        /\ AuthServiceCheck(reqs[j].user_id)
        /\ \E d \in OwnRow(reqs[j]) : CanDecrypt(d.full_answer)

----------------------------------------------------------------------------
(* The stored answers in the history, checked under Spec *)

\* C25: in a history granted to an authorized user, the item of every turn
\* whose row holds a decryptable answer carries that answer in plaintext as
\* full_answer, and the text of the turn as message_text.
C25_HistoryCarriesStoredAnswers ==
    \A i \in Done("history") :
        reqs[i].authorized =>
            \A k \in DOMAIN reqs[i].res.history :
                LET item == reqs[i].res.history[k]
                IN  \A d \in RowsOf(item.message_id) :
                        (d.user_id = reqs[i].user_id /\ CanDecrypt(d.full_answer)) =>
                            /\ item.full_answer = Some(decrypt_data(d.full_answer))
                            /\ item.message_text # Some(DecryptErrorText)

----------------------------------------------------------------------------
(* Auth service: the handlers of /register, /authorize and /check, each
   call a request of its own. A users row is "reg" without a phone number
   and "auth" with one; user_id is the primary key of the table. *)

MaxAuthReqs == 3

\* Lines 119-122: SELECT EXISTS(SELECT 1 FROM users WHERE user_id = $1).
register_user_select(u) ==
    /\ reqs' = Append(reqs, [NewReq("register", u) EXCEPT
                               !.pc = "write", !.exists = users[u] # "none"])
    /\ UNCHANGED <<users, dialogs, user_states, now>>

\* Lines 124-141: the UPDATE of the row that was seen, or the INSERT of a
\* new one. An INSERT of a user_id the table holds by now violates the
\* primary key: the exception leaves the handler and the reply is a 500.
register_user_write(i) ==
    /\ Req(i).kind = "register" /\ Req(i).pc = "write"
    /\ LET u == Req(i).user_id
       IN  IF Req(i).exists
           THEN /\ users' = users
                /\ reqs' = [reqs EXCEPT ![i] =
                      Finish([@ EXCEPT !.stmts = @ + 1],
                             [NoResult EXCEPT !.status = "updated"])]
           ELSE IF users[u] = "none"
           THEN /\ users' = [users EXCEPT ![u] = "reg"]
                /\ reqs' = [reqs EXCEPT ![i] =
                      Finish([@ EXCEPT !.stmts = @ + 1],
                             [NoResult EXCEPT !.status = "registered"])]
           ELSE /\ users' = users
                /\ reqs' = [reqs EXCEPT ![i] =
                      Finish([@ EXCEPT !.stmts = @ + 1],
                             [NoResult EXCEPT !.status = "error500"])]
    /\ UNCHANGED <<dialogs, user_states, now>>

\* Lines 151-160: UPDATE users SET phone_number = $1 WHERE user_id = $2,
\* which changes no row when there is none, and the reply, which does not
\* depend on it.
authorize_user_call(u) ==
    /\ users' = [users EXCEPT ![u] = IF @ = "none" THEN "none" ELSE "auth"]
    /\ reqs' = Append(reqs, Finish([NewReq("authorize", u) EXCEPT !.stmts = 1],
                                   [NoResult EXCEPT !.status = "authorized"]))
    /\ UNCHANGED <<dialogs, user_states, now>>

\* Lines 170-181: SELECT phone_number (None as well when there is no row),
\* the last_activity UPDATE, and `"authorized": phone_number is not None`.
check_authorization_call(u) ==
    /\ reqs' = Append(reqs, Finish([NewReq("check", u) EXCEPT
                                      !.stmts = 2,
                                      !.authorized = AuthServiceCheck(u)],
                                   [NoResult EXCEPT !.status = "ok"]))
    /\ UNCHANGED <<users, dialogs, user_states, now>>

NextAuth ==
    \/ \E u \in Users : Len(reqs) < MaxAuthReqs /\ register_user_select(u)
    \/ \E i \in DOMAIN reqs : register_user_write(i)
    \/ \E u \in Users : Len(reqs) < MaxAuthReqs /\ authorize_user_call(u)
    \/ \E u \in Users : Len(reqs) < MaxAuthReqs /\ check_authorization_call(u)

SpecAuth == Init /\ [][NextAuth]_vars

\* C26: a /check of a user that follows an /authorize of that user which
\* replied "authorized" answers authorized = true, whether or not the user
\* was ever registered.
C26_AuthorizedThenCheckTrue ==
    \A j \in Done("authorize"), i \in Done("check") :
        ( /\ j < i
          /\ reqs[j].user_id = reqs[i].user_id
          /\ reqs[j].res.status = "authorized" )
        => reqs[i].authorized

\* C29: no /register ends in an error, two overlapping calls for the same
\* unknown user included: each replies "registered" or "updated".
C29_ConcurrentRegisterBothSucceed ==
    \A i \in Done("register") :
        reqs[i].res.status \in {"registered", "updated"}

----------------------------------------------------------------------------
(* API gateway: handle_message for a text that is not a phone number. The
   gateway's calls are requests of the dialogue service that carry, as
   `turn`, the index of the gateway turn they were made for. *)

MaxGatewayTurns == 2

GatewayTurns == {i \in DOMAIN reqs : reqs[i].kind = "gateway"}

\* The /process call of gateway turn g.
ProcessOf(g) == {i \in DOMAIN reqs : reqs[i].kind = "process" /\ reqs[i].turn = g}

\* The /log_message calls of gateway turn g.
LogsOf(g) == {i \in DOMAIN reqs : reqs[i].kind = "log" /\ reqs[i].turn = g}

\* The LogMessage model declares `message_text: str`: a body whose
\* message_text is null is refused with a 422 before the handler runs.
LogMessageValid(message_text) == message_text.some

\* Lines 105-134: the text is not a phone number, and the user's message is
\* logged.
handle_message_log_user(user_id, chat_id, message_text) ==
    LET g == NextId
        turn == [NewReq("gateway", user_id) EXCEPT
                   !.pc = "process", !.chat_id = chat_id,
                   !.text = message_text, !.at = now]
        call == [LogRequest(g + 1, user_id, chat_id, message_text, FALSE)
                   EXCEPT !.turn = g]
    IN  /\ reqs' = reqs \o <<turn, call>>
        /\ dialogs' = dialogs \cup
              {LogRow(g + 1, user_id, chat_id, message_text, FALSE)}
        /\ now' = now + 1
        /\ UNCHANGED <<users, user_states>>

\* Line 137: the /process call is sent; the dialogue service serves it
\* with the steps of process_message.
handle_message_process(g) ==
    /\ Req(g).kind = "gateway" /\ Req(g).pc = "process"
    /\ reqs' = Append([reqs EXCEPT ![g] = [@ EXCEPT !.pc = "wait"]],
                      [ProcessRequest(NextId, Req(g).user_id, Req(g).chat_id,
                                      Req(g).text) EXCEPT !.turn = g])
    /\ UNCHANGED <<users, dialogs, user_states, now>>

\* What message.answer sends: the truncated answer when the response has
\* one, else the full answer.
Delivered(response) ==
    IF response.truncated_answer.some /\ response.truncated_answer.v # <<>>
    THEN [NoResult EXCEPT !.status = "replied",
                          !.truncated_answer = response.truncated_answer,
                          !.message_id = response.message_id]
    ELSE [NoResult EXCEPT !.status = "replied",
                          !.full_answer = response.full_answer,
                          !.message_id = response.message_id]

\* Lines 139-174: an error response is reported and the turn ends;
\* otherwise the answer is sent and the bot's message is logged, with
\* response.get("full_answer", "") as its message_text.
handle_message_reply(g) ==
    /\ Req(g).kind = "gateway" /\ Req(g).pc = "wait"
    /\ \E p \in ProcessOf(g) :
          /\ Req(p).pc = "done"
          /\ LET response == Req(p).res
                 message_text == response.full_answer
             IN  IF response.status # "ok"
                 THEN /\ reqs' = [reqs EXCEPT ![g] =
                            Finish(@, [NoResult EXCEPT !.status = "error"])]
                      /\ UNCHANGED <<dialogs, now>>
                 ELSE IF LogMessageValid(message_text)
                 THEN /\ reqs' = Append(
                            [reqs EXCEPT ![g] = Finish(@, Delivered(response))],
                            [LogRequest(NextId, Req(g).user_id, Req(g).chat_id,
                                        message_text.v, TRUE)
                                EXCEPT !.turn = g])
                      /\ dialogs' = dialogs \cup
                            {LogRow(NextId, Req(g).user_id, Req(g).chat_id,
                                    message_text.v, TRUE)}
                      /\ now' = now + 1
                 ELSE /\ reqs' = Append(
                            [reqs EXCEPT ![g] = Finish(@, Delivered(response))],
                            [NewReq("log", Req(g).user_id) EXCEPT
                                !.chat_id = Req(g).chat_id, !.is_bot = TRUE,
                                !.turn = g, !.at = now,
                                !.res = [NoResult EXCEPT !.status = "error422"]])
                      /\ UNCHANGED <<dialogs, now>>
    /\ UNCHANGED <<users, user_states>>

NextGateway ==
    \/ register_user(1)
    \/ authorize_user(1)
    \/ \E u \in Users :
          /\ Cardinality(GatewayTurns) < MaxGatewayTurns
          /\ handle_message_log_user(u, 1, Hello)
    \/ \E g \in DOMAIN reqs : handle_message_process(g)
    \/ \E i \in DOMAIN reqs,
          result \in {[error |-> FALSE, response |-> Ans(3, 0)],
                      [error |-> FALSE, response |-> Ans(120, 2)]} :
          process_message_ml(i, result)
    \/ \E i \in DOMAIN reqs : process_message_check(i, FALSE)
    \/ \E i \in DOMAIN reqs : process_message_insert(i)
    \/ \E i \in DOMAIN reqs : process_message_insert_fails(i)
    \/ \E g \in DOMAIN reqs : handle_message_reply(g)

SpecGateway == Init /\ [][NextGateway]_vars

\* The rows written for gateway turn g.
TurnRows(g) ==
    {d \in dialogs : \E i \in LogsOf(g) \cup ProcessOf(g) :
                         d.message_id = reqs[i].message_id}

\* C27: after a gateway turn that delivered a reply, the store holds the
\* user's message and a bot message of that turn, whether the user is
\* authorized or not.
C27_DeliveredReplyIsLogged ==
    \A g \in Done("gateway") :
        reqs[g].res.status = "replied" =>
            /\ \E d \in TurnRows(g) :
                  /\ ~d.is_bot_message
                  /\ d.user_id = reqs[g].user_id /\ d.chat_id = reqs[g].chat_id
            /\ \E d \in TurnRows(g) :
                  /\ d.is_bot_message
                  /\ d.user_id = reqs[g].user_id /\ d.chat_id = reqs[g].chat_id

\* C28: the context of the /process call of a gateway turn ends with the
\* current message, and no earlier entry of it is the copy of that message
\* which the turn has just logged.
C28_CurrentMessageOnceInContext ==
    \A p \in Of("process") :
        reqs[p].turn # 0 =>
            /\ reqs[p].context[Len(reqs[p].context)] =
                  [role |-> "user", content |-> PlainCell(reqs[p].text)]
            /\ \A l \in LogsOf(reqs[p].turn), j \in DOMAIN reqs[p].ctx_ids :
                  ~reqs[l].is_bot => reqs[p].ctx_ids[j] # reqs[l].message_id

=============================================================================
